---- MODULE Spec2Model ----
(***************************************************************************)
(* The WomenMatters dashboard (women_violence_streamlit.py): a Streamlit   *)
(* script that is re-executed top to bottom on every user interaction.     *)
(* One script run loads the (cached) raw table, cleans it, reads the       *)
(* sidebar widgets, updates the session slot 'df_filtered' and computes    *)
(* the aggregations of the charts.                                         *)
(*                                                                         *)
(* Representation of pandas values:                                        *)
(*   - a DataFrame is a sequence of rows; every row carries its index      *)
(*     label idx (the RangeIndex read_csv assigns), which survives         *)
(*     fillna, dropna and boolean-mask selection;                          *)
(*   - a float cell is <<v>>, and NaN is <<>>;                             *)
(*   - an object (string) cell is a string, and NaN is NaStr;              *)
(*   - 'Question' is the sequence of the words of its text, <<>> when the  *)
(*     CSV field is empty (read_csv reads an empty field as NaN);          *)
(*   - 'Survey Year' is a record tagged "text" (the CSV string m/d/y),     *)
(*     "nan" (empty CSV field), "datetime" (a parsed Timestamp) or "NaT".  *)
(***************************************************************************)
EXTENDS Integers, Sequences, FiniteSets, TLC

VARIABLES
    df_raw,                 \* load_data(): cached, the same in every run
    df_clean,               \* clean_data(df_raw) of the last run
    session_state,          \* st.session_state: a function on the keys set so far
    year_range,             \* value of the year slider in the last run
    selected_countries,     \* value of the country multiselect
    selected_genders,       \* value of the gender multiselect
    selected_demographics,  \* value of the demographics multiselect
    submit_button,          \* value of the Apply button in the last run
    agg,                    \* the aggregations the last run computed, by name
    raised,                 \* where the last run raised, "" when it completed
    runs,                   \* number of script runs of the session
    passes                  \* number of cleaning passes (CleanSpec only)

vars == <<df_raw, df_clean, session_state, year_range, selected_countries,
          selected_genders, selected_demographics, submit_button, agg,
          raised, runs, passes>>

widgets == <<year_range, selected_countries, selected_genders,
             selected_demographics>>

---------------------------------------------------------------------------
(* Bounds of the model *)

MaxRows == 3
MaxRuns == 3
MaxPasses == 2

(* countries[:5], the default of the country multiselect *)
DefaultCountries == 5

---------------------------------------------------------------------------
(* pandas values *)

NaStr == "<NA>"
NaN == <<>>
Num(v) == <<v>>

Text(m, d, y) == [kind |-> "text", year |-> y, month |-> m, day |-> d]
MissingDate == [kind |-> "nan", year |-> 0, month |-> 0, day |-> 0]
NaT == [kind |-> "NaT", year |-> 0, month |-> 0, day |-> 0]
Timestamp(y, m, d) == [kind |-> "datetime", year |-> y, month |-> m, day |-> d]

IsLeap(y) == (y % 4 = 0 /\ y % 100 # 0) \/ y % 400 = 0

DaysInMonth(m, y) ==
    IF m = 2 THEN (IF IsLeap(y) THEN 29 ELSE 28)
    ELSE IF m \in {4, 6, 9, 11} THEN 30 ELSE 31

IsValidDateText(x) ==
    /\ x.kind = "text"
    /\ x.year \in 1678..2261
    /\ x.month \in 1..12
    /\ x.day \in 1..DaysInMonth(x.month, x.year)

(* to_datetime that parses strings only: a Timestamp is not a date string *)
to_datetime_strings_only(x) ==
    IF IsValidDateText(x) THEN Timestamp(x.year, x.month, x.day) ELSE NaT

(* pd.to_datetime(x, errors='coerce') on one cell: a Timestamp stays as it *)
(* is, a date string is parsed, anything else becomes NaT.                 *)
to_datetime(x) ==
    IF x.kind = "datetime" THEN x
    ELSE IF IsValidDateText(x) THEN Timestamp(x.year, x.month, x.day)
    ELSE NaT

SeqToSet(s) == {s[i] : i \in DOMAIN s}

RECURSIVE SumSeq(_)
SumSeq(s) == IF s = <<>> THEN 0 ELSE Head(s) + SumSeq(Tail(s))

RECURSIVE InsertSorted(_, _)
InsertSorted(x, s) ==
    IF s = <<>> THEN <<x>>
    ELSE IF x <= Head(s) THEN <<x>> \o s
    ELSE <<Head(s)>> \o InsertSorted(x, Tail(s))

RECURSIVE SortAsc(_)
SortAsc(s) == IF s = <<>> THEN <<>> ELSE InsertSorted(Head(s), SortAsc(Tail(s)))

(* The numbers of a float column, NaN skipped *)
NonMissing(col) ==
    LET present == SelectSeq(col, LAMBDA v : v # NaN)
    IN  [i \in DOMAIN present |-> present[i][1]]

(* Series.median(): NaN is skipped; the middle value, or the mean of the   *)
(* two middle values; NaN when no value is present.  The raw values of the *)
(* model are multiples of ten, so the mean of two of them is exact.        *)
Median(col) ==
    LET s == SortAsc(NonMissing(col))
        n == Len(s)
    IN  IF n = 0 THEN NaN
        ELSE IF n % 2 = 1 THEN Num(s[(n + 1) \div 2])
        ELSE Num((s[n \div 2] + s[n \div 2 + 1]) \div 2)

---------------------------------------------------------------------------
(* clean_data *)

Column(df, c) == [i \in DOMAIN df |-> df[i][c]]

(* df['Value'].fillna(median_value); fillna(NaN) leaves NaN in place *)
fillna(df, median_value) ==
    [i \in DOMAIN df |->
        [df[i] EXCEPT !.Value = IF @ = NaN THEN median_value ELSE @]]

(* pd.to_datetime(df['Survey Year'], errors='coerce') *)
parse_survey_year(df) ==
    [i \in DOMAIN df |-> [df[i] EXCEPT !.SurveyYear = to_datetime(@)]]

(* dropna(subset=['Survey Year']) *)
dropna_value_or_date(df) ==
    SelectSeq(df, LAMBDA r : r.SurveyYear.kind \notin {"NaT", "nan"})

(* dropna(subset=['Value']): the date is not looked at *)
dropna_value_only(df) == SelectSeq(df, LAMBDA r : r.Value # NaN)

(* df.dropna(subset=['Value', 'Survey Year']); a missing date cell, parsed *)
(* or not, counts as missing                                               *)
dropna(df) ==
    SelectSeq(df, LAMBDA r : r.Value # NaN /\ r.SurveyYear.kind \notin {"NaT", "nan"})

(* clean_data with the rows of invalid dates dropped before the median is   *)
(* taken                                                                   *)
clean_data_drop_first(df) ==
    LET kept == dropna_value_or_date(parse_survey_year(df))
        median_value == Median(Column(kept, "Value"))
    IN  dropna(fillna(kept, median_value))

clean_data(df) ==
    LET median_value == Median(Column(df, "Value"))
    IN  dropna(parse_survey_year(fillna(df, median_value)))

---------------------------------------------------------------------------
(* The raw tables the model draws from *)

Row(c, g, sy, dq, dr, q, v) ==
    [idx |-> 0, Country |-> c, Gender |-> g, SurveyYear |-> sy,
     DemographicsQuestion |-> dq, DemographicsResponse |-> dr,
     Question |-> q, Value |-> v]

RowUniverse ==
    << Row("A", "F", Text(1, 1, 2010), "Age", "15-24", <<"burns", "food">>, Num(10)),
       Row("B", "M", Text(1, 1, 2011), "Education", "Higher", <<"goes", "out">>, Num(30)),
       Row("A", "M", Text(1, 1, 2010), "Age", "25-34", <<"burns", "food">>, NaN),
       Row("B", "F", Text(13, 45, 2011), "Education", "Higher", <<"goes", "out">>, Num(50)),
       Row("A", NaStr, Text(1, 1, 2011), "Age", "15-24", <<>>, Num(20)),
       Row(NaStr, "F", Text(1, 1, 2010), "Education", "None", <<"if", "she">>, Num(30)),
       Row("B", "M", MissingDate, NaStr, NaStr, <<"goes", "out">>, NaN) >>

(* read_csv numbers the rows 0, 1, 2, ... *)
read_csv(rows) == [i \in DOMAIN rows |-> [rows[i] EXCEPT !.idx = i - 1]]

(* every table of at most MaxRows rows of the universe, in any order and   *)
(* with repetitions                                                        *)
RawTables ==
    UNION {{read_csv([i \in 1..n |-> RowUniverse[f[i]]]) :
                f \in [1..n -> DOMAIN RowUniverse]} : n \in 0..MaxRows}

RECURSIVE Picks(_, _)
Picks(from, n) ==
    IF n = 0 \/ from > Len(RowUniverse) THEN {<<>>}
    ELSE Picks(from + 1, n)
         \cup {<<RowUniverse[from]>> \o p : p \in Picks(from + 1, n - 1)}

(* the tables of at most MaxRows distinct rows of the universe, in the     *)
(* order of the universe                                                   *)
SessionTables == {read_csv(p) : p \in Picks(1, MaxRows)}

(* the country names of the model, in the order of sorted() *)
CountryOrder == <<"A", "B", "C", "D", "E", "F">>

(* a table with one more country than the default of the country widget *)
WideTable ==
    read_csv([i \in 1..(DefaultCountries + 1) |->
        Row(CountryOrder[i], "F", Text(1, 1, 2010), "Age", "15-24",
            <<"burns", "food">>, Num(10 * i))])

---------------------------------------------------------------------------
(* Sidebar widgets *)

Rows(df) == SeqToSet(df)

Years(df) == {r.SurveyYear.year : r \in Rows(df)}

(* int(df_clean['Survey Year'].dt.year.min()): min() of an empty column is *)
(* NaN and int(NaN) raises ValueError                                      *)
YearBoundsRaise(df) == Years(df) = {}

year_min(df) == CHOOSE y \in Years(df) : \A z \in Years(df) : y <= z
year_max(df) == CHOOSE y \in Years(df) : \A z \in Years(df) : y >= z

(* the values the slider can return: min_value <= lo <= hi <= max_value *)
YearRanges(df) ==
    {<<lo, hi>> \in (year_min(df)..year_max(df)) \X (year_min(df)..year_max(df)) :
        lo <= hi}

DefaultYearRange(df) == <<year_min(df), year_max(df)>>

(* sorted(df_clean['Country'].dropna().unique()) *)
countries(df) ==
    SelectSeq(CountryOrder, LAMBDA c : c \in {r.Country : r \in Rows(df)} \ {NaStr})

(* countries[:5] *)
DefaultSelectedCountries(df) ==
    LET cs == countries(df)
    IN  {cs[i] : i \in 1..(IF Len(cs) < DefaultCountries THEN Len(cs)
                           ELSE DefaultCountries)}

(* df_clean['Gender'].dropna().unique(): options and default *)
genders(df) == {r.Gender : r \in Rows(df)} \ {NaStr}

(* df_clean['Demographics Question'].dropna().unique(): options and default *)
demographics_questions(df) == {r.DemographicsQuestion : r \in Rows(df)} \ {NaStr}

---------------------------------------------------------------------------
(* Filtered Data Logic *)

(* the mask with | in place of & between the category predicates *)
FilterRows_any(clean, yr, sc, sg, sd) ==
    SelectSeq(clean, LAMBDA r :
        /\ r.SurveyYear.year >= yr[1]
        /\ r.SurveyYear.year <= yr[2]
        /\ \/ r.Country \in sc
           \/ r.Gender \in sg
           \/ r.DemographicsQuestion \in sd)

(* the mask with an empty selection read as "no restriction" *)
FilterRows_empty_is_all(clean, yr, sc, sg, sd) ==
    SelectSeq(clean, LAMBDA r :
        /\ r.SurveyYear.year >= yr[1]
        /\ r.SurveyYear.year <= yr[2]
        /\ (sc = {} \/ r.Country \in sc)
        /\ (sg = {} \/ r.Gender \in sg)
        /\ (sd = {} \/ r.DemographicsQuestion \in sd))

(* the mask applied to df_raw in place of df_clean *)
FilterRows_raw(clean, yr, sc, sg, sd) ==
    SelectSeq(df_raw, LAMBDA r :
        /\ r.SurveyYear.year >= yr[1]
        /\ r.SurveyYear.year <= yr[2]
        /\ r.Country \in sc
        /\ r.Gender \in sg
        /\ r.DemographicsQuestion \in sd)

(* the boolean mask of lines 209-215 *)
FilterRows(clean, yr, sc, sg, sd) ==
    SelectSeq(clean, LAMBDA r :
        /\ r.SurveyYear.year >= yr[1]
        /\ r.SurveyYear.year <= yr[2]
        /\ r.Country \in sc
        /\ r.Gender \in sg
        /\ r.DemographicsQuestion \in sd)

(* the slot recomputed in every run, the button ignored *)
FilteredDataLogic_reactive(ss, clean, yr, sc, sg, sd, submit) ==
    [k \in DOMAIN ss \cup {"df_filtered"} |->
        IF k = "df_filtered" THEN FilterRows(clean, yr, sc, sg, sd) ELSE ss[k]]

(* the slot initialised with the rows the default widget values select *)
FilteredDataLogic_default_filter(ss, clean, yr, sc, sg, sd, submit) ==
    LET ss1 == IF "df_filtered" \notin DOMAIN ss
               THEN [k \in DOMAIN ss \cup {"df_filtered"} |->
                        IF k = "df_filtered" THEN FilterRows(clean, yr, sc, sg, sd)
                        ELSE ss[k]]
               ELSE ss
    IN  IF submit
        THEN [ss1 EXCEPT !["df_filtered"] = FilterRows(clean, yr, sc, sg, sd)]
        ELSE ss1

(* lines 205-216: the new st.session_state *)
FilteredDataLogic(ss, clean, yr, sc, sg, sd, submit) ==
    LET ss1 == IF "df_filtered" \notin DOMAIN ss
               THEN [k \in DOMAIN ss \cup {"df_filtered"} |->
                        IF k = "df_filtered" THEN clean ELSE ss[k]]
               ELSE ss
    IN  IF submit
        THEN [ss1 EXCEPT !["df_filtered"] = FilterRows(clean, yr, sc, sg, sd)]
        ELSE ss1

---------------------------------------------------------------------------
(* Aggregations of the charts.  A grouped result is a function on the      *)
(* group keys; groupby and value_counts drop the rows whose key is NaN.    *)
(* A mean is kept exact, as the pair <<sum, count>>.                       *)

RECURSIVE SumValues(_)
SumValues(S) ==
    IF S = {} THEN 0
    ELSE LET r == CHOOSE x \in S : TRUE
         IN  r.Value[1] + SumValues(S \ {r})

(* Series.mean(): NaN is skipped *)
Mean(S) ==
    LET present == {r \in S : r.Value # NaN}
    IN  IF present = {} THEN NaN
        ELSE <<SumValues(present), Cardinality(present)>>

(* df_filtered['Gender'].value_counts() *)
gender_counts(df) ==
    [g \in {r.Gender : r \in Rows(df)} \ {NaStr} |->
        Cardinality({r \in Rows(df) : r.Gender = g})]

(* " ".join(str(q) for q in df_filtered['Question'].dropna()): the words   *)
(* of the questions present, in row order; a missing question has no words *)
RECURSIVE text(_)
text(df) ==
    IF df = <<>> THEN <<>> ELSE Head(df).Question \o text(Tail(df))

(* the part of wordcloud.STOPWORDS the model's questions use *)
STOPWORDS == {"if", "she", "out"}

(* WordCloud(stopwords=STOPWORDS).generate(text): the frequencies of the   *)
(* words that are no stopwords; generate raises ValueError ("We need at    *)
(* least 1 word to plot a word cloud") when no word is left                *)
wordcloud(txt) ==
    [w \in SeqToSet(txt) \ STOPWORDS |->
        Cardinality({i \in DOMAIN txt : txt[i] = w})]

WordCloudRaises(txt) == SeqToSet(txt) \ STOPWORDS = {}

(* df_filtered.groupby('Question')['Value'].mean() *)
df_question_avg(df) ==
    [q \in {r.Question : r \in Rows(df)} \ {<<>>} |->
        Mean({r \in Rows(df) : r.Question = q})]

(* df_filtered.groupby(df_filtered['Survey Year'].dt.year)['Value'].mean() *)
df_yearly_avg(df) ==
    [y \in Years(df) |-> Mean({r \in Rows(df) : r.SurveyYear.year = y})]

DemographicsPairs(df) ==
    {<<r.DemographicsQuestion, r.DemographicsResponse>> : r \in
        {x \in Rows(df) : x.DemographicsQuestion # NaStr /\ x.DemographicsResponse # NaStr}}

(* groupby(['Demographics Question', 'Demographics Response'])['Value'].mean() *)
df_sunburst_data(df) ==
    [k \in DemographicsPairs(df) |->
        Mean({r \in Rows(df) : <<r.DemographicsQuestion, r.DemographicsResponse>> = k})]

(* groupby(['Demographics Question', 'Question'])['Value'].mean() *)
df_heatmap_data(df) ==
    [k \in {<<r.DemographicsQuestion, r.Question>> : r \in
                {x \in Rows(df) : x.DemographicsQuestion # NaStr /\ x.Question # <<>>}} |->
        Mean({r \in Rows(df) : <<r.DemographicsQuestion, r.Question>> = k})]

(* df_heatmap_data.pivot(index='Demographics Question', columns='Question', *)
(* values='Value'): a combination without rows is a NaN cell               *)
heatmap_data(df) ==
    LET g == df_heatmap_data(df)
    IN  [dq \in {k[1] : k \in DOMAIN g} |->
            [q \in {k[2] : k \in DOMAIN g} |->
                IF <<dq, q>> \in DOMAIN g THEN g[<<dq, q>>] ELSE NaN]]

(* groupby(['Demographics Question', 'Gender'])['Value'].mean() *)
df_grouped_gender(df) ==
    [k \in {<<r.DemographicsQuestion, r.Gender>> : r \in
                {x \in Rows(df) : x.DemographicsQuestion # NaStr /\ x.Gender # NaStr}} |->
        Mean({r \in Rows(df) : <<r.DemographicsQuestion, r.Gender>> = k})]

(* groupby(['Demographics Question', 'Demographics Response']).size() *)
df_stacked_bar_data(df) ==
    [k \in DemographicsPairs(df) |->
        Cardinality({r \in Rows(df) :
            <<r.DemographicsQuestion, r.DemographicsResponse>> = k})]

BeforeWordCloud == {"gender_counts", "text"}

AfterWordCloud ==
    {"wordcloud", "df_question_avg", "df_yearly_avg", "df_sunburst_data",
     "heatmap_data", "df_grouped_gender", "df_stacked_bar_data"}

AllCharts == BeforeWordCloud \cup AfterWordCloud

(* every aggregation of lines 237-333 on one table *)
Aggregations(df) ==
    [gender_counts |-> gender_counts(df),
     text |-> text(df),
     wordcloud |-> wordcloud(text(df)),
     df_question_avg |-> df_question_avg(df),
     df_yearly_avg |-> df_yearly_avg(df),
     df_sunburst_data |-> df_sunburst_data(df),
     heatmap_data |-> heatmap_data(df),
     df_grouped_gender |-> df_grouped_gender(df),
     df_stacked_bar_data |-> df_stacked_bar_data(df)]

(* the aggregations a run computes: those after line 250 only when         *)
(* WordCloud.generate does not raise                                       *)
Charts(df) ==
    IF WordCloudRaises(text(df))
    THEN [gender_counts |-> gender_counts(df), text |-> text(df)]
    ELSE Aggregations(df)

---------------------------------------------------------------------------
(* One run of the script, lines 99-341 *)

NoState == [k \in {} |-> <<>>]

WidgetsExist == runs >= 1 /\ raised # "year_min"

(* yr, sc, sg, sd: what the user has set the widgets to; a widget that was *)
(* not rendered before returns its default.  submit: the Apply button.     *)
ScriptRun(yr, sc, sg, sd, submit) ==
    /\ runs < MaxRuns
    /\ runs' = runs + 1
    /\ df_clean' = clean_data(df_raw)
    /\ UNCHANGED <<df_raw, passes>>
    /\ IF YearBoundsRaise(df_clean')
       THEN /\ raised' = "year_min"
            /\ agg' = NoState
            /\ submit_button' = FALSE
            /\ UNCHANGED <<session_state, widgets>>
       ELSE /\ year_range' = IF WidgetsExist THEN yr ELSE DefaultYearRange(df_clean')
            /\ selected_countries' =
                   IF WidgetsExist THEN sc ELSE DefaultSelectedCountries(df_clean')
            /\ selected_genders' = IF WidgetsExist THEN sg ELSE genders(df_clean')
            /\ selected_demographics' =
                   IF WidgetsExist THEN sd ELSE demographics_questions(df_clean')
            /\ submit_button' = submit
            /\ session_state' =
                   FilteredDataLogic(session_state, df_clean', year_range',
                                     selected_countries', selected_genders',
                                     selected_demographics', submit_button')
            /\ agg' = Charts(session_state'["df_filtered"])
            /\ raised' = IF AfterWordCloud \subseteq DOMAIN agg' THEN "" ELSE "wordcloud"

(* the first run of the session *)
FirstRun ==
    /\ runs = 0
    /\ ScriptRun(year_range, selected_countries, selected_genders,
                 selected_demographics, FALSE)

(* a rerun with no widget touched *)
Rerun ==
    /\ runs >= 1
    /\ ScriptRun(year_range, selected_countries, selected_genders,
                 selected_demographics, FALSE)

ChangeYearRange ==
    /\ WidgetsExist
    /\ \E yr \in YearRanges(df_clean) \ {year_range} :
          ScriptRun(yr, selected_countries, selected_genders,
                    selected_demographics, FALSE)

ChangeCountries ==
    /\ WidgetsExist
    /\ \E sc \in (SUBSET SeqToSet(countries(df_clean))) \ {selected_countries} :
          ScriptRun(year_range, sc, selected_genders, selected_demographics, FALSE)

ChangeGenders ==
    /\ WidgetsExist
    /\ \E sg \in (SUBSET genders(df_clean)) \ {selected_genders} :
          ScriptRun(year_range, selected_countries, sg, selected_demographics, FALSE)

ChangeDemographics ==
    /\ WidgetsExist
    /\ \E sd \in (SUBSET demographics_questions(df_clean)) \ {selected_demographics} :
          ScriptRun(year_range, selected_countries, selected_genders, sd, FALSE)

(* the user presses "Apply Filters" *)
ClickApply ==
    /\ WidgetsExist
    /\ ScriptRun(year_range, selected_countries, selected_genders,
                 selected_demographics, TRUE)

Init ==
    /\ df_raw \in SessionTables \cup {WideTable}
    /\ df_clean = <<>>
    /\ session_state = NoState
    /\ year_range = <<0, 0>>
    /\ selected_countries = {}
    /\ selected_genders = {}
    /\ selected_demographics = {}
    /\ submit_button = FALSE
    /\ agg = NoState
    /\ raised = ""
    /\ runs = 0
    /\ passes = 0

Next ==
    \/ FirstRun
    \/ Rerun
    \/ ChangeYearRange
    \/ ChangeCountries
    \/ ChangeGenders
    \/ ChangeDemographics
    \/ ClickApply

Spec == Init /\ [][Next]_vars

---------------------------------------------------------------------------
(* clean_data applied to a raw table, and again to its own result *)

CleanPass ==
    /\ passes < MaxPasses
    /\ passes' = passes + 1
    /\ df_clean' = clean_data(IF passes = 0 THEN df_raw ELSE df_clean)
    /\ UNCHANGED <<df_raw, session_state, widgets, submit_button, agg, raised, runs>>

CleanInit ==
    /\ df_raw \in RawTables
    /\ df_clean = <<>>
    /\ session_state = NoState
    /\ year_range = <<0, 0>>
    /\ selected_countries = {}
    /\ selected_genders = {}
    /\ selected_demographics = {}
    /\ submit_button = FALSE
    /\ agg = NoState
    /\ raised = ""
    /\ runs = 0
    /\ passes = 0

CleanNext == CleanPass

CleanSpec == CleanInit /\ [][CleanNext]_vars

---------------------------------------------------------------------------
(* Properties *)

HasSlot == "df_filtered" \in DOMAIN session_state

ActiveFiltered == session_state["df_filtered"]

Count(r, df) == Cardinality({i \in DOMAIN df : df[i] = r})

RECURSIVE SumCounts(_)
SumCounts(f) ==
    IF DOMAIN f = {} THEN 0
    ELSE LET k == CHOOSE x \in DOMAIN f : TRUE
         IN  f[k] + SumCounts([x \in DOMAIN f \ {k} |-> f[x]])

(* the four predicates of the filter on one row, for the widget values of  *)
(* the last run                                                            *)
PassesAll(r) ==
    /\ year_range[1] <= r.SurveyYear.year
    /\ r.SurveyYear.year <= year_range[2]
    /\ r.Country \in selected_countries
    /\ r.Gender \in selected_genders
    /\ r.DemographicsQuestion \in selected_demographics

AtDefaults ==
    /\ year_range = DefaultYearRange(df_clean)
    /\ selected_countries = DefaultSelectedCountries(df_clean)
    /\ selected_genders = genders(df_clean)
    /\ selected_demographics = demographics_questions(df_clean)

(* C1: in a run without Apply, made when the slot exists, the slot keeps   *)
(* the value it had at the end of the previous run, whatever the widgets   *)
(* were changed to, and every aggregation the run computes is the          *)
(* aggregation of that unchanged value.                                    *)
C1_SlotKeptWithoutApply ==
    [][(HasSlot /\ runs' = runs + 1 /\ ~submit_button')
         => /\ session_state' = session_state
            /\ \A c \in DOMAIN agg' : agg'[c] = Aggregations(ActiveFiltered)[c]
            /\ BeforeWordCloud \subseteq DOMAIN agg']_vars

(* a run without Apply has left the slot at a value the widgets of the run *)
(* do not select                                                           *)
C1_Witness ==
    /\ runs >= 2
    /\ HasSlot
    /\ ~submit_button
    /\ ~AtDefaults
    /\ ActiveFiltered # FilterRows(df_clean, year_range, selected_countries,
                                   selected_genders, selected_demographics)

(* C2: after the first run of a session (Apply not pressed), the slot      *)
(* holds the whole cleaned table, whatever the widget defaults select; the *)
(* slot is missing only when the run raised before reaching line 205.      *)
C2_FirstRunFullDataset ==
    runs = 1 =>
        /\ ~submit_button
        /\ IF raised = "year_min" THEN df_clean = <<>> /\ ~HasSlot
           ELSE HasSlot /\ ActiveFiltered = df_clean
                        /\ ActiveFiltered = clean_data(df_raw)

(* the first run on a table of six countries: the country widget selects   *)
(* five of them and the slot holds the rows of all six                     *)
C2_Witness ==
    /\ runs = 1
    /\ HasSlot
    /\ Cardinality(selected_countries) = DefaultCountries
    /\ Len(countries(df_clean)) > DefaultCountries
    /\ \E r \in Rows(ActiveFiltered) : r.Country \notin selected_countries
    /\ ActiveFiltered = df_clean

(* C3: after a run with Apply, a cleaned row is in the slot iff its year   *)
(* is within the slider's bounds (both inclusive), its Country is among    *)
(* the selected countries, its Gender among the selected genders and its   *)
(* Demographics Question among the selected ones.                          *)
C3_FilterIsConjunction ==
    (submit_button /\ HasSlot) =>
        \A i \in DOMAIN df_clean :
            (df_clean[i] \in Rows(ActiveFiltered)) <=> PassesAll(df_clean[i])

FailedPredicates(r) ==
    {p \in {"year", "country", "gender", "demographics"} :
        \/ p = "year" /\ ~(year_range[1] <= r.SurveyYear.year
                           /\ r.SurveyYear.year <= year_range[2])
        \/ p = "country" /\ r.Country \notin selected_countries
        \/ p = "gender" /\ r.Gender \notin selected_genders
        \/ p = "demographics" /\ r.DemographicsQuestion \notin selected_demographics}

(* Apply has kept a row whose year is the lower and the upper bound of the *)
(* slider, and has excluded a row that fails one predicate only            *)
C3_Witness ==
    /\ submit_button
    /\ HasSlot
    /\ \E r \in Rows(ActiveFiltered) :
          r.SurveyYear.year = year_range[1] /\ r.SurveyYear.year = year_range[2]
    /\ \E r \in Rows(df_clean) \ Rows(ActiveFiltered) :
          Cardinality(FailedPredicates(r)) = 1

(* C4: after a run with Apply in which the country, the gender or the      *)
(* demographics selection is empty, the slot has no rows.                  *)
C4_EmptySelectionMatchesNothing ==
    (submit_button /\ HasSlot
        /\ (selected_countries = {} \/ selected_genders = {}
                \/ selected_demographics = {}))
      => ActiveFiltered = <<>>

(* Apply with no country selected, every other predicate matching every    *)
(* cleaned row                                                             *)
C4_Witness ==
    /\ submit_button
    /\ HasSlot
    /\ selected_countries = {}
    /\ df_clean # <<>>
    /\ \A r \in Rows(df_clean) :
          /\ year_range[1] <= r.SurveyYear.year
          /\ r.SurveyYear.year <= year_range[2]
          /\ r.Gender \in selected_genders
          /\ r.DemographicsQuestion \in selected_demographics
    /\ ActiveFiltered = <<>>

(* C5: every row of clean_data(raw) has a Value and a parsed Survey Year;  *)
(* a raw row whose Survey Year does not parse is absent from the result,   *)
(* and a raw row whose Survey Year parses and whose Value is present, or   *)
(* can be filled because some raw Value is present, is in the result.      *)
C5_CleanedInvariants ==
    passes = 1 =>
        /\ \A r \in Rows(df_clean) :
              r.Value # NaN /\ r.SurveyYear.kind = "datetime"
        /\ \A i \in DOMAIN df_raw :
              LET raw == df_raw[i]
                  kept == \E r \in Rows(df_clean) : r.idx = raw.idx
                  fillable == \E j \in DOMAIN df_raw : df_raw[j].Value # NaN
              IN  /\ ~IsValidDateText(raw.SurveyYear) => ~kept
                  /\ (IsValidDateText(raw.SurveyYear)
                        /\ (raw.Value # NaN \/ fillable)) => kept

(* a table cleaned once: a row with a Value and an unparseable date was    *)
(* dropped and a row with a missing Value and a valid date was kept        *)
C5_Witness ==
    /\ passes = 1
    /\ \E i \in DOMAIN df_raw :
          /\ df_raw[i].SurveyYear.kind = "text"
          /\ ~IsValidDateText(df_raw[i].SurveyYear)
          /\ df_raw[i].Value # NaN
          /\ \A r \in Rows(df_clean) : r.idx # df_raw[i].idx
    /\ \E i \in DOMAIN df_raw :
          /\ df_raw[i].Value = NaN
          /\ \E r \in Rows(df_clean) : r.idx = df_raw[i].idx

(* C6: in clean_data(raw), a row whose raw Value is missing has the median *)
(* of the raw Values present in all raw rows (rows dropped later for their *)
(* date included), and a row whose raw Value is present has it unchanged;  *)
(* Value = [10, missing, 30] with valid dates becomes [10, 20, 30].        *)
C6_MedianFill ==
    passes = 1 =>
        /\ \A r \in Rows(df_clean) :
              LET raw == df_raw[r.idx + 1]
              IN  r.Value = IF raw.Value = NaN
                            THEN Median(Column(df_raw, "Value"))
                            ELSE raw.Value
        /\ (Column(df_raw, "Value") = <<Num(10), NaN, Num(30)>>
              /\ \A i \in DOMAIN df_raw : IsValidDateText(df_raw[i].SurveyYear))
              => Column(df_clean, "Value") = <<Num(10), Num(20), Num(30)>>

(* a missing Value was filled with a median that counts the Value of a row *)
(* dropped for its date                                                    *)
C6_Witness ==
    /\ passes = 1
    /\ Len(df_raw) = 3
    /\ \E i, j, k \in DOMAIN df_raw :
          /\ df_raw[i].Value = Num(10) /\ IsValidDateText(df_raw[i].SurveyYear)
          /\ df_raw[j].Value = NaN /\ IsValidDateText(df_raw[j].SurveyYear)
          /\ df_raw[k].Value = Num(50) /\ ~IsValidDateText(df_raw[k].SurveyYear)
          /\ \E r \in Rows(df_clean) : r.idx = df_raw[j].idx /\ r.Value = Num(30)
          /\ \A r \in Rows(df_clean) : r.idx # df_raw[k].idx

(* Value = [10, missing, 30] with valid dates was cleaned to [10, 20, 30]  *)
C6_ExampleWitness ==
    /\ passes = 1
    /\ Column(df_raw, "Value") = <<Num(10), NaN, Num(30)>>
    /\ Column(df_clean, "Value") = <<Num(10), Num(20), Num(30)>>

(* C7: the counts of the "count by Gender" aggregation add up to the       *)
(* number of rows of the active filtered dataset, rows of missing Gender   *)
(* included.                                                               *)
C7_GenderCountsSumToTotal ==
    (HasSlot /\ "gender_counts" \in DOMAIN agg)
        => SumCounts(agg["gender_counts"]) = Len(ActiveFiltered)

(* C8: when the active filtered dataset is empty, the run completes        *)
(* without raising and every aggregation is empty.                         *)
C8_EmptyInputStability ==
    (runs >= 1 /\ HasSlot /\ ActiveFiltered = <<>>)
        => /\ raised = ""
           /\ DOMAIN agg = AllCharts
           /\ \A c \in DOMAIN agg : DOMAIN agg[c] = {}

RawSatisfiesCleanedInvariants ==
    \A i \in DOMAIN df_raw :
        df_raw[i].Value # NaN /\ IsValidDateText(df_raw[i].SurveyYear)

(* C9: for a raw table with no missing Value and only valid dates, cleaning *)
(* the result of clean_data again returns it unchanged: the same rows in   *)
(* the same order with the same Values and dates.                          *)
C9_CleanIdempotent ==
    [][(RawSatisfiesCleanedInvariants /\ passes >= 1 /\ passes' = passes + 1)
         => df_clean' = df_clean]_vars

(* a non-empty table of valid rows, cleaned twice; its first cleaning      *)
(* turned the date strings into Timestamps                                 *)
C9_Witness ==
    /\ passes = 2
    /\ RawSatisfiesCleanedInvariants
    /\ df_raw # <<>>
    /\ Len(df_clean) = Len(df_raw)
    /\ df_clean # df_raw

(* C10: the active filtered dataset is a sub-collection of the cleaned     *)
(* table: each of its rows is a cleaned row with every field unchanged, no *)
(* row occurs more often than in the cleaned table, and the cleaned table  *)
(* of a run is clean_data of the raw table, whatever was filtered before.  *)
C10_FilteredWithinCleaned ==
    (runs >= 1 /\ HasSlot) =>
        /\ \A r \in Rows(ActiveFiltered) :
              /\ r \in Rows(df_clean)
              /\ Count(r, ActiveFiltered) <= Count(r, df_clean)
        /\ df_clean = clean_data(df_raw)

(* Apply has left a proper, non-empty part of a cleaned table that differs *)
(* from the raw table in its rows                                          *)
C10_Witness ==
    /\ submit_button
    /\ HasSlot
    /\ ActiveFiltered # <<>>
    /\ Len(ActiveFiltered) < Len(df_clean)
    /\ Len(df_clean) < Len(df_raw)

====
